---- MODULE Spec2Model ----
(***************************************************************************)
(* Model of the sitemap-to-Indexing-API submitter (src/main.go).           *)
(*                                                                         *)
(* Strings are sequences of one-character strings, so that the CSV writer  *)
(* and reader of encoding/csv, strconv.Atoi and strings.HasPrefix are      *)
(* computed character by character.  A calendar date is shown by a fixed   *)
(* width of two digits (the day number); time.Format("2006-01-02") is      *)
(* fixed-width too.  Durations are in milliseconds.                        *)
(***************************************************************************)
EXTENDS Integers, Sequences, FiniteSets, TLC

(***************************************************************************)
(* Bounds of the model.                                                    *)
(***************************************************************************)
MaxSitemapLen == 3      \* sitemap entries, one run of the program
MaxFaults == 2          \* failed remote calls and failed appends
MaxRuns == 2            \* runs of the program on the same files
MaxRunsSitemapLen == 2  \* sitemap entries when the program is run again

(***************************************************************************)
(* Program constants.                                                      *)
(***************************************************************************)
MinuteMs == 60000
MarginMs == 100
DayMs == 86400000
HttpOk == 200

QUOTE == "\""
COMMA == ","
NL == "\n"

Max(a, b) == IF a >= b THEN a ELSE b

(***************************************************************************)
(* strconv.Atoi on a string of characters (values stay far from the int    *)
(* range, so the range error is not modelled).                             *)
(***************************************************************************)
Digits == {"0", "1", "2", "3", "4", "5", "6", "7", "8", "9"}

DigitVal(c) ==
    CASE c = "0" -> 0 [] c = "1" -> 1 [] c = "2" -> 2 [] c = "3" -> 3
      [] c = "4" -> 4 [] c = "5" -> 5 [] c = "6" -> 6 [] c = "7" -> 7
      [] c = "8" -> 8 [] c = "9" -> 9

RECURSIVE ParseUint(_, _)
ParseUint(s, acc) ==
    IF s = <<>> THEN acc ELSE ParseUint(Tail(s), acc * 10 + DigitVal(Head(s)))

Atoi(s) ==
    LET signed == s # <<>> /\ Head(s) \in {"+", "-"}
        body == IF signed THEN Tail(s) ELSE s
    IN  IF body = <<>> \/ \E k \in 1..Len(body) : body[k] \notin Digits
        THEN [err |-> TRUE, val |-> 0]
        ELSE [err |-> FALSE,
              val |-> IF signed /\ Head(s) = "-"
                      THEN 0 - ParseUint(body, 0)
                      ELSE ParseUint(body, 0)]

(***************************************************************************)
(* time.Now().Format("2006-01-02") and time.Now().Format(time.RFC3339)     *)
(* for the day number d, and strings.HasPrefix.                            *)
(***************************************************************************)
DigitChar(n) ==
    CASE n = 0 -> "0" [] n = 1 -> "1" [] n = 2 -> "2" [] n = 3 -> "3"
      [] n = 4 -> "4" [] n = 5 -> "5" [] n = 6 -> "6" [] n = 7 -> "7"
      [] n = 8 -> "8" [] n = 9 -> "9"

FormatDate(d) == <<DigitChar((d \div 10) % 10), DigitChar(d % 10)>>

FormatRFC3339(d) == FormatDate(d) \o <<"T">>

HasPrefix(s, prefix) ==
    /\ Len(s) >= Len(prefix)
    /\ \A k \in 1..Len(prefix) : s[k] = prefix[k]

(***************************************************************************)
(* encoding/csv Writer.Write: one record as one line.                      *)
(***************************************************************************)
\* a writer that never quotes a field
fieldNeverQuoted(field) == FALSE

fieldNeedsQuotes(field) ==
    /\ field # <<>>
    /\ \/ field = <<"\\", ".">>
       \/ \E k \in 1..Len(field) : field[k] \in {COMMA, QUOTE, NL}
       \/ Head(field) = " "

RECURSIVE EscapeQuotes(_)
EscapeQuotes(field) ==
    IF field = <<>> THEN <<>>
    ELSE (IF Head(field) = QUOTE THEN <<QUOTE, QUOTE>> ELSE <<Head(field)>>)
         \o EscapeQuotes(Tail(field))

WriteField(field) ==
    IF fieldNeedsQuotes(field)
    THEN <<QUOTE>> \o EscapeQuotes(field) \o <<QUOTE>>
    ELSE field

RECURSIVE WriteFields(_)
WriteFields(record) ==
    IF record = <<>> THEN <<>>
    ELSE IF Len(record) = 1 THEN WriteField(record[1])
    ELSE WriteField(Head(record)) \o <<COMMA>> \o WriteFields(Tail(record))

WriteRecord(record) == WriteFields(record) \o <<NL>>

(***************************************************************************)
(* encoding/csv Reader.ReadAll: the records of a file, or an error.        *)
(* Empty lines are skipped, a quoted field may hold commas, line breaks    *)
(* and doubled quotes, a bare quote in an unquoted field and an unclosed   *)
(* quoted field are errors, and every record must have as many fields as   *)
(* the first one (FieldsPerRecord = 0).                                    *)
(***************************************************************************)
CsvError == [err |-> TRUE, records |-> <<>>]

EndRecord(recs, rec) ==
    IF recs # <<>> /\ Len(rec) # Len(recs[1])
    THEN CsvError
    ELSE [err |-> FALSE, records |-> Append(recs, rec)]

RECURSIVE csvParse(_, _, _, _, _, _)
csvParse(s, i, mode, field, rec, recs) ==
    IF i > Len(s)
    THEN CASE mode = "line" -> [err |-> FALSE, records |-> recs]
           [] mode \in {"field", "bare", "closed"} -> EndRecord(recs, Append(rec, field))
           [] mode = "quoted" -> CsvError
    ELSE LET c == s[i]
             next(m, f, r, rs) == csvParse(s, i + 1, m, f, r, rs)
             endLine == LET e == EndRecord(recs, Append(rec, field))
                        IN  IF e.err THEN CsvError
                            ELSE next("line", <<>>, <<>>, e.records)
         IN  CASE mode = "line" /\ c = NL -> next("line", <<>>, <<>>, recs)
               [] mode \in {"line", "field"} /\ c = QUOTE -> next("quoted", <<>>, rec, recs)
               [] mode \in {"line", "field"} /\ c = COMMA ->
                      next("field", <<>>, Append(rec, <<>>), recs)
               [] mode = "field" /\ c = NL -> endLine
               [] mode \in {"line", "field"} /\ c \notin {NL, QUOTE, COMMA} ->
                      next("bare", <<c>>, rec, recs)
               [] mode = "bare" /\ c = COMMA -> next("field", <<>>, Append(rec, field), recs)
               [] mode = "bare" /\ c = NL -> endLine
               [] mode = "bare" /\ c = QUOTE -> CsvError
               [] mode = "bare" /\ c \notin {NL, QUOTE, COMMA} ->
                      next("bare", Append(field, c), rec, recs)
               [] mode = "quoted" /\ c = QUOTE -> next("closed", field, rec, recs)
               [] mode = "quoted" /\ c # QUOTE -> next("quoted", Append(field, c), rec, recs)
               [] mode = "closed" /\ c = QUOTE -> next("quoted", Append(field, QUOTE), rec, recs)
               [] mode = "closed" /\ c = COMMA -> next("field", <<>>, Append(rec, field), recs)
               [] mode = "closed" /\ c = NL -> endLine
               [] mode = "closed" /\ c \notin {NL, QUOTE, COMMA} -> CsvError

ReadAll(data) == csvParse(data, 1, "line", <<>>, <<>>, <<>>)

(***************************************************************************)
(* The inputs of a run: the URLs a sitemap may list (one plain, one with   *)
(* a comma, one with a quote and a line break), the sitemap, the two CSV   *)
(* stores and the two rate-limit environment variables.                    *)
(***************************************************************************)
Urls == {<<"a">>, <<"a", COMMA, "b">>, <<QUOTE, NL, "c">>}

SeqsUpTo(S, n) == UNION {[1..k -> S] : k \in 0..n}

Range(f) == {f[k] : k \in DOMAIN f}

RECURSIVE WriteAll(_)
WriteAll(rows) ==
    IF rows = <<>> THEN <<>> ELSE WriteRecord(Head(rows)) \o WriteAll(Tail(rows))

AbsentFile == [st |-> "absent", data |-> <<>>]
DeniedFile == [st |-> "denied", data |-> <<>>]
FileOf(rows) == [st |-> "ok", data |-> WriteAll(rows)]

Sitemaps(maxLen) ==
    {[ok |-> TRUE, locs |-> l] : l \in SeqsUpTo(Urls, maxLen)}
        \cup {[ok |-> FALSE, locs |-> <<>>]}

\* the indexed file as exported: no row, or the URL with a comma
IndexedRowsInit == {<<>>, << <<<<"a", COMMA, "b">>>> >>}

\* the sent file as left by earlier runs (no row, or the URL with a quote
\* sent yesterday or today), or with rows that lack the timestamp (every
\* row, or only the second one)
SentRowsInit ==
    {<<>>}
        \cup {<< <<<<QUOTE, NL, "c">>, FormatRFC3339(d)>> >> : d \in {0, 1}}
        \cup {<< <<<<"a">>>> >>,
              << <<<<"a">>, FormatRFC3339(1)>>, <<<<QUOTE, NL, "c">>>> >>}

\* RATE_LIMIT_PER_DAY and RATE_LIMIT_PER_MINUTE: daily limits 0, 1 and 2
\* with 60 per minute, and per-minute limits 0, -1 and unset, and an unset
\* daily limit
Configs ==
    {<<d, <<"6", "0">>>> : d \in {<<"0">>, <<"1">>, <<"2">>, <<>>}}
        \cup {<<<<"2">>, m>> : m \in {<<"0">>, <<"-", "1">>, <<>>}}

VARIABLES
    sitemapFile,        \* SITEMAP_FILE: the parsed document, or unparsable
    rateLimitDay,       \* RATE_LIMIT_PER_DAY as read from the environment
    rateLimitMinute,    \* RATE_LIMIT_PER_MINUTE as read from the environment
    indexedFile,        \* INDEXED_FILE on disk
    sentFile,           \* SENT_FILE on disk
    now,                \* the wall clock's calendar day
    pc,                 \* position of main
    exit,               \* why main stopped early
    run,                \* number of the process run
    rateLimitDayInt, rateLimitMinuteInt, sleepDur,
    urls, indexedUrls, sentUrls, todayLimit, count, idx,
    reported,           \* the number printed by the final line
    calls,              \* history: the publish calls of this run (the URL, its
                        \* place in the sitemap, the result, the time slept
                        \* since the call before, the day, the append's outcome)
    waited,             \* history: time slept since the last publish call
    indexedRows,        \* history: the rows the indexed file was made of
    sentRows,           \* history: the rows the sent file was made of
    startSent,          \* history: the sent file when this run started
    startRows,          \* history: the rows of the sent file at that moment
    faults,             \* environment: failed remote calls and appends so far
    startDay            \* history: the calendar day this run started on

env == <<sitemapFile, rateLimitDay, rateLimitMinute>>
locals == <<rateLimitDayInt, rateLimitMinuteInt, sleepDur, urls, indexedUrls,
            sentUrls, todayLimit, count, idx>>
vars == <<env, indexedFile, sentFile, now, pc, exit, run, locals, reported,
          calls, waited, indexedRows, sentRows, startSent, startRows, faults,
          startDay>>

Startup == {"start", "parseSitemap", "readIndexed", "readSent", "todaySent"}
Dispatch == {"loop", "pause", "publish", "append", "sleep"}
Stopped == {"done", "fatal", "panic", "killed"}

InitLocals ==
    /\ rateLimitDayInt = 0 /\ rateLimitMinuteInt = 0 /\ sleepDur = 0
    /\ urls = <<>> /\ indexedUrls = {} /\ sentUrls = {}
    /\ todayLimit = 0 /\ count = 0 /\ idx = 1

InitWith(maxLen) ==
    /\ sitemapFile \in Sitemaps(maxLen)
    /\ \E c \in Configs : rateLimitDay = c[1] /\ rateLimitMinute = c[2]
    /\ \/ indexedFile \in {AbsentFile, DeniedFile} /\ indexedRows = <<>>
       \/ indexedRows \in IndexedRowsInit /\ indexedFile = FileOf(indexedRows)
    /\ \/ sentFile \in {AbsentFile, DeniedFile} /\ sentRows = <<>>
       \/ sentRows \in SentRowsInit /\ sentFile = FileOf(sentRows)
    /\ now = 1
    /\ pc = "start" /\ exit = "" /\ run = 1
    /\ InitLocals
    /\ reported = 0
    /\ calls = <<>> /\ waited = 0
    /\ startSent = sentFile
    /\ startRows = sentRows
    /\ faults = 0
    /\ startDay = now

Init == InitWith(MaxSitemapLen)

InitRuns == InitWith(MaxRunsSitemapLen)

(***************************************************************************)
(* The helpers of main.go.                                                 *)
(***************************************************************************)
\* time.Minute / time.Duration(n): Go's integer division truncates to zero.
GoDiv(a, b) == IF b > 0 THEN a \div b ELSE 0 - (a \div (0 - b))

\* readCsv: opens with O_RDWR|O_CREATE (a missing file is created empty),
\* reads every record and keeps the first field of each.
readCsv(file) ==
    IF file.st = "denied"
    THEN [err |-> TRUE, file |-> file, urls |-> {}]
    ELSE LET opened == IF file.st = "absent" THEN [st |-> "ok", data |-> <<>>] ELSE file
             r == ReadAll(opened.data)
         IN  [err |-> r.err, file |-> opened,
              urls |-> {rec[1] : rec \in Range(r.records)}]

\* a todaySent that counts every record, whatever its date
todaySentCountsAll(file, today) ==
    IF file.st # "ok"
    THEN [err |-> TRUE, panic |-> FALSE, sent |-> 0]
    ELSE LET r == ReadAll(file.data)
         IN  IF r.err THEN [err |-> TRUE, panic |-> FALSE, sent |-> 0]
             ELSE IF \E rec \in Range(r.records) : Len(rec) < 2
             THEN [err |-> FALSE, panic |-> TRUE, sent |-> 0]
             ELSE [err |-> FALSE, panic |-> FALSE, sent |-> Len(r.records)]

\* a todaySent that passes over a record without a second field
todaySentSkipShort(file, today) ==
    IF file.st # "ok"
    THEN [err |-> TRUE, panic |-> FALSE, sent |-> 0]
    ELSE LET r == ReadAll(file.data)
         IN  IF r.err THEN [err |-> TRUE, panic |-> FALSE, sent |-> 0]
             ELSE [err |-> FALSE, panic |-> FALSE,
                   sent |-> Cardinality({k \in 1..Len(r.records) :
                                /\ Len(r.records[k]) >= 2
                                /\ HasPrefix(r.records[k][2], FormatDate(today))})]

\* todaySent: opens read-only, reads every record and counts those whose
\* second field starts with today's date; a record without a second field
\* makes record[1] panic (index out of range).
todaySent(file, today) ==
    IF file.st # "ok"
    THEN [err |-> TRUE, panic |-> FALSE, sent |-> 0]
    ELSE LET r == ReadAll(file.data)
         IN  IF r.err THEN [err |-> TRUE, panic |-> FALSE, sent |-> 0]
             ELSE IF \E rec \in Range(r.records) : Len(rec) < 2
             THEN [err |-> FALSE, panic |-> TRUE, sent |-> 0]
             ELSE [err |-> FALSE, panic |-> FALSE,
                   sent |-> Cardinality({k \in 1..Len(r.records) :
                                HasPrefix(r.records[k][2], FormatDate(today))})]

\* contains: map lookup.
contains(m, str) == str \in m

\* a dedup test that forgets the sent map
isKnownIndexedOnly(url) == contains(indexedUrls, url)

\* the dedup test of the loop (line 103)
isKnown(url) == contains(indexedUrls, url) \/ contains(sentUrls, url)

\* an append that opens the file with O_TRUNC in place of O_APPEND
appendUrlToCsvTruncating(file, url, today) ==
    [st |-> "ok", data |-> WriteRecord(<<url, FormatRFC3339(today)>>)]

\* appendUrlToCsv: O_APPEND|O_CREATE|O_WRONLY, one record (url, RFC3339 now).
appendUrlToCsv(file, url, today) ==
    [st |-> "ok", data |-> file.data \o WriteRecord(<<url, FormatRFC3339(today)>>)]

\* the outcomes of client.UrlNotifications.Publish(...).Do()
PublishResults ==
    {[err |-> TRUE, code |-> 0], [err |-> FALSE, code |-> HttpOk],
     [err |-> FALSE, code |-> 429]}

\* the outcomes of appendUrlToCsv: the record is written; the file cannot be
\* opened (an error is returned); the buffered record is lost in Flush,
\* whose error is not looked at (nil is returned).
AppendOutcomes == {"ok", "openErr", "flushErr"}

Abort(kind, why) ==
    /\ pc' = kind
    /\ exit' = why

(***************************************************************************)
(* main, lines 46-98: start-up.                                            *)
(***************************************************************************)
Configure ==
    /\ pc = "start"
    /\ \E svcOk \in BOOLEAN :
         LET d == Atoi(rateLimitDay)
             m == Atoi(rateLimitMinute)
         IN  IF ~svcOk
             THEN Abort("fatal", "NewService")
                  /\ UNCHANGED <<rateLimitDayInt, rateLimitMinuteInt, sleepDur>>
             ELSE IF d.err
             THEN Abort("fatal", "AtoiDay")
                  /\ UNCHANGED <<rateLimitDayInt, rateLimitMinuteInt, sleepDur>>
             ELSE IF m.err
             THEN Abort("fatal", "AtoiMinute")
                  /\ rateLimitDayInt' = d.val
                  /\ UNCHANGED <<rateLimitMinuteInt, sleepDur>>
             ELSE IF m.val = 0
             THEN Abort("panic", "divideByZero")
                  /\ rateLimitDayInt' = d.val
                  /\ rateLimitMinuteInt' = m.val
                  /\ UNCHANGED sleepDur
             ELSE /\ pc' = "parseSitemap"
                  /\ rateLimitDayInt' = d.val
                  /\ rateLimitMinuteInt' = m.val
                  /\ sleepDur' = GoDiv(MinuteMs, m.val) + MarginMs
                  /\ UNCHANGED exit
    /\ UNCHANGED <<env, indexedFile, sentFile, now, run, urls, indexedUrls,
                   sentUrls, todayLimit, count, idx, reported, calls, waited,
                   indexedRows, sentRows, startSent, startRows, faults, startDay>>

ParseSitemap ==
    /\ pc = "parseSitemap"
    /\ IF sitemapFile.ok
       THEN pc' = "readIndexed" /\ urls' = sitemapFile.locs /\ UNCHANGED exit
       ELSE Abort("fatal", "parseSitemap") /\ UNCHANGED urls
    /\ UNCHANGED <<env, indexedFile, sentFile, now, run, rateLimitDayInt,
                   rateLimitMinuteInt, sleepDur, indexedUrls, sentUrls,
                   todayLimit, count, idx, reported, calls, waited,
                   indexedRows, sentRows, startSent, startRows, faults, startDay>>

ReadIndexed ==
    /\ pc = "readIndexed"
    /\ LET r == readCsv(indexedFile)
       IN  /\ indexedFile' = r.file
           /\ IF r.err
              THEN Abort("fatal", "readIndexed") /\ UNCHANGED indexedUrls
              ELSE pc' = "readSent" /\ indexedUrls' = r.urls /\ UNCHANGED exit
    /\ UNCHANGED <<env, sentFile, now, run, rateLimitDayInt, rateLimitMinuteInt,
                   sleepDur, urls, sentUrls, todayLimit, count, idx, reported,
                   calls, waited, indexedRows, sentRows, startSent, startRows,
                   faults, startDay>>

ReadSent ==
    /\ pc = "readSent"
    /\ LET r == readCsv(sentFile)
       IN  /\ sentFile' = r.file
           /\ IF r.err
              THEN Abort("fatal", "readSent") /\ UNCHANGED sentUrls
              ELSE pc' = "todaySent" /\ sentUrls' = r.urls /\ UNCHANGED exit
    /\ UNCHANGED <<env, indexedFile, now, run, rateLimitDayInt, rateLimitMinuteInt,
                   sleepDur, urls, indexedUrls, todayLimit, count, idx, reported,
                   calls, waited, indexedRows, sentRows, startSent, startRows,
                   faults, startDay>>

TodaySent ==
    /\ pc = "todaySent"
    /\ LET r == todaySent(sentFile, now)
       IN  IF r.panic
           THEN Abort("panic", "indexOutOfRange") /\ UNCHANGED <<todayLimit, count>>
           ELSE IF r.err
           THEN Abort("fatal", "todaySent") /\ UNCHANGED <<todayLimit, count>>
           ELSE /\ pc' = "loop"
                /\ todayLimit' = rateLimitDayInt - r.sent
                /\ count' = 0
                /\ UNCHANGED exit
    /\ UNCHANGED <<env, indexedFile, sentFile, now, run, rateLimitDayInt,
                   rateLimitMinuteInt, sleepDur, urls, indexedUrls, sentUrls,
                   idx, reported, calls, waited, indexedRows, sentRows, startSent,
                   startRows, faults, startDay>>

(***************************************************************************)
(* main, lines 100-140: the dispatch loop, one sitemap entry at a time.    *)
(***************************************************************************)
\* a skip that counts the entry against the daily limit
SkipCountsEntry ==
    /\ pc = "loop"
    /\ idx <= Len(urls)
    /\ isKnown(urls[idx])
    /\ idx' = idx + 1
    /\ count' = count + 1
    /\ UNCHANGED <<env, indexedFile, sentFile, now, pc, exit, run, rateLimitDayInt,
                   rateLimitMinuteInt, sleepDur, urls, indexedUrls, sentUrls,
                   todayLimit, reported, calls, waited, indexedRows,
                   sentRows, startSent, startRows, faults, startDay>>

\* line 103 false: the entry is in one of the two maps
Skip ==
    /\ pc = "loop"
    /\ idx <= Len(urls)
    /\ isKnown(urls[idx])
    /\ idx' = idx + 1
    /\ UNCHANGED <<env, indexedFile, sentFile, now, pc, exit, run, rateLimitDayInt,
                   rateLimitMinuteInt, sleepDur, urls, indexedUrls, sentUrls,
                   todayLimit, count, reported, calls, waited, indexedRows,
                   sentRows, startSent, startRows, faults, startDay>>

\* lines 104-105: counted, and within today's limit
Proceed ==
    /\ pc = "loop"
    /\ idx <= Len(urls)
    /\ ~isKnown(urls[idx])
    /\ ~(count + 1 > todayLimit)
    /\ count' = count + 1
    /\ pc' = "publish"
    /\ UNCHANGED <<env, indexedFile, sentFile, now, exit, run, rateLimitDayInt,
                   rateLimitMinuteInt, sleepDur, urls, indexedUrls, sentUrls,
                   todayLimit, idx, reported, calls, waited, indexedRows,
                   sentRows, startSent, startRows, faults, startDay>>

\* lines 104-108: counted, over today's limit: time.Sleep(24 * time.Hour) begins
BeginPause ==
    /\ pc = "loop"
    /\ idx <= Len(urls)
    /\ ~isKnown(urls[idx])
    /\ count + 1 > todayLimit
    /\ count' = count + 1
    /\ pc' = "pause"
    /\ UNCHANGED <<env, indexedFile, sentFile, now, exit, run, rateLimitDayInt,
                   rateLimitMinuteInt, sleepDur, urls, indexedUrls, sentUrls,
                   todayLimit, idx, reported, calls, waited, indexedRows,
                   sentRows, startSent, startRows, faults, startDay>>

\* a pause after which the loop goes on with the following entry
EndPauseSkipsEntry ==
    /\ pc = "pause"
    /\ now' = now + 1
    /\ waited' = waited + DayMs
    /\ count' = 0
    /\ todayLimit' = rateLimitDayInt
    /\ pc' = "loop"
    /\ idx' = idx + 1
    /\ UNCHANGED <<env, indexedFile, sentFile, exit, run, rateLimitDayInt,
                   rateLimitMinuteInt, sleepDur, urls, indexedUrls, sentUrls,
                   reported, calls, indexedRows, sentRows, startSent,
                   startRows, faults, startDay>>

\* lines 108-110: the sleep returns a day later; the counters are reset
EndPause ==
    /\ pc = "pause"
    /\ now' = now + 1
    /\ waited' = waited + DayMs
    /\ count' = 0
    /\ todayLimit' = rateLimitDayInt
    /\ pc' = "publish"
    /\ UNCHANGED <<env, indexedFile, sentFile, exit, run, rateLimitDayInt,
                   rateLimitMinuteInt, sleepDur, urls, indexedUrls, sentUrls,
                   idx, reported, calls, indexedRows, sentRows, startSent,
                   startRows, faults, startDay>>

\* a remote call whose failure gives the counted entry back
PublishRefundsFailure ==
    /\ pc = "publish"
    /\ \E res \in PublishResults :
         /\ calls' = Append(calls, [url |-> urls[idx], pos |-> idx, res |-> res,
                                    gap |-> waited, day |-> now,
                                    appended |-> "none"])
         /\ IF res.err \/ res.code # HttpOk
            THEN /\ faults < MaxFaults
                 /\ faults' = faults + 1
                 /\ count' = count - 1
                 /\ pc' = "loop" /\ idx' = idx + 1
            ELSE pc' = "append" /\ UNCHANGED <<idx, faults, count>>
    /\ waited' = 0
    /\ UNCHANGED <<env, indexedFile, sentFile, now, exit, run, rateLimitDayInt,
                   rateLimitMinuteInt, sleepDur, urls, indexedUrls, sentUrls,
                   todayLimit, reported, indexedRows, sentRows, startSent,
                   startRows, startDay>>

\* a remote call whose status code is not looked at
PublishIgnoresStatus ==
    /\ pc = "publish"
    /\ \E res \in PublishResults :
         /\ calls' = Append(calls, [url |-> urls[idx], pos |-> idx, res |-> res,
                                    gap |-> waited, day |-> now,
                                    appended |-> "none"])
         /\ IF res.err
            THEN /\ faults < MaxFaults
                 /\ faults' = faults + 1
                 /\ pc' = "loop" /\ idx' = idx + 1
            ELSE pc' = "append" /\ UNCHANGED <<idx, faults>>
    /\ waited' = 0
    /\ UNCHANGED <<env, indexedFile, sentFile, now, exit, run, rateLimitDayInt,
                   rateLimitMinuteInt, sleepDur, urls, indexedUrls, sentUrls,
                   todayLimit, count, reported, indexedRows, sentRows, startSent,
                   startRows, startDay>>

\* lines 113-129: the remote call; an error or a status other than 200
\* goes on to the next entry
Publish ==
    /\ pc = "publish"
    /\ \E res \in PublishResults :
         /\ calls' = Append(calls, [url |-> urls[idx], pos |-> idx, res |-> res,
                                    gap |-> waited, day |-> now,
                                    appended |-> "none"])
         /\ IF res.err \/ res.code # HttpOk
            THEN /\ faults < MaxFaults
                 /\ faults' = faults + 1
                 /\ pc' = "loop" /\ idx' = idx + 1
            ELSE pc' = "append" /\ UNCHANGED <<idx, faults>>
    /\ waited' = 0
    /\ UNCHANGED <<env, indexedFile, sentFile, now, exit, run, rateLimitDayInt,
                   rateLimitMinuteInt, sleepDur, urls, indexedUrls, sentUrls,
                   todayLimit, count, reported, indexedRows, sentRows, startSent,
                   startRows, startDay>>

\* lines 131-136: the record is appended; an error goes on to the next entry
AppendUrl ==
    /\ pc = "append"
    /\ \E outcome \in AppendOutcomes :
         /\ calls' = [calls EXCEPT ![Len(calls)].appended = outcome]
         /\ IF outcome = "ok"
            THEN /\ sentFile' = appendUrlToCsv(sentFile, urls[idx], now)
                 /\ sentRows' = Append(sentRows, <<urls[idx], FormatRFC3339(now)>>)
                 /\ UNCHANGED faults
            ELSE /\ faults < MaxFaults
                 /\ faults' = faults + 1
                 /\ UNCHANGED <<sentFile, sentRows>>
         /\ IF outcome = "openErr"
            THEN pc' = "loop" /\ idx' = idx + 1
            ELSE pc' = "sleep" /\ UNCHANGED idx
    /\ UNCHANGED <<env, indexedFile, now, exit, run, rateLimitDayInt,
                   rateLimitMinuteInt, sleepDur, urls, indexedUrls, sentUrls,
                   todayLimit, count, reported, waited, indexedRows, startSent,
                   startRows, startDay>>

\* a pacing sleep after which the loop stays at the same entry
PaceSleepSameEntry ==
    /\ pc = "sleep"
    /\ waited' = waited + Max(sleepDur, 0)
    /\ pc' = "loop"
    /\ UNCHANGED <<env, indexedFile, sentFile, now, exit, run, rateLimitDayInt,
                   rateLimitMinuteInt, sleepDur, urls, indexedUrls, sentUrls,
                   todayLimit, count, idx, reported, calls, indexedRows,
                   sentRows, startSent, startRows, faults, startDay>>

\* line 137: time.Sleep(sleepDur); a duration <= 0 returns at once
PaceSleep ==
    /\ pc = "sleep"
    /\ waited' = waited + Max(sleepDur, 0)
    /\ idx' = idx + 1
    /\ pc' = "loop"
    /\ UNCHANGED <<env, indexedFile, sentFile, now, exit, run, rateLimitDayInt,
                   rateLimitMinuteInt, sleepDur, urls, indexedUrls, sentUrls,
                   todayLimit, count, reported, calls, indexedRows, sentRows,
                   startSent, startRows, faults, startDay>>

\* line 140: the final report
Finish ==
    /\ pc = "loop"
    /\ idx > Len(urls)
    /\ reported' = count
    /\ pc' = "done"
    /\ UNCHANGED <<env, indexedFile, sentFile, now, exit, run, locals, calls,
                   waited, indexedRows, sentRows, startSent, startRows, faults, startDay>>

(***************************************************************************)
(* The environment: the process is killed (its memory, and with it the     *)
(* history of the run, is gone); the program is started again on the same  *)
(* files (the clock's day moves only in the 24h pause).                    *)
(***************************************************************************)
Kill ==
    /\ pc \in Startup \cup Dispatch
    /\ Abort("killed", "killed")
    /\ rateLimitDayInt' = 0 /\ rateLimitMinuteInt' = 0 /\ sleepDur' = 0
    /\ urls' = <<>> /\ indexedUrls' = {} /\ sentUrls' = {}
    /\ todayLimit' = 0 /\ count' = 0 /\ idx' = 1
    /\ calls' = <<>> /\ waited' = 0
    /\ startSent' = sentFile
    /\ startRows' = sentRows
    /\ UNCHANGED <<env, indexedFile, sentFile, now, run, reported, indexedRows,
                   sentRows, faults, startDay>>

Restart ==
    /\ pc \in Stopped
    /\ run < MaxRuns
    /\ run' = run + 1
    /\ pc' = "start" /\ exit' = ""
    /\ rateLimitDayInt' = 0 /\ rateLimitMinuteInt' = 0 /\ sleepDur' = 0
    /\ urls' = <<>> /\ indexedUrls' = {} /\ sentUrls' = {}
    /\ todayLimit' = 0 /\ count' = 0 /\ idx' = 1
    /\ reported' = 0
    /\ calls' = <<>> /\ waited' = 0
    /\ startSent' = sentFile
    /\ startRows' = sentRows
    /\ startDay' = now
    /\ UNCHANGED <<env, indexedFile, sentFile, now, indexedRows, sentRows, faults>>

\* one run of the program
Next ==
    \/ Configure \/ ParseSitemap \/ ReadIndexed \/ ReadSent \/ TodaySent
    \/ Skip \/ Proceed \/ BeginPause \/ EndPause \/ Publish \/ AppendUrl
    \/ PaceSleep \/ Finish
    \/ Kill

Spec == Init /\ [][Next]_vars

\* consecutive runs of the program on the same files
NextRuns == Next \/ Restart

SpecRuns == InitRuns /\ [][NextRuns]_vars

\* one run that goes on while it is not killed: main is one sequential
\* goroutine, so the step it stands at is taken once the call or the sleep
\* it waits for returns
Running ==
    \/ Configure \/ ParseSitemap \/ ReadIndexed \/ ReadSent \/ TodaySent
    \/ Skip \/ Proceed \/ BeginPause \/ EndPause \/ Publish \/ AppendUrl
    \/ PaceSleep \/ Finish

SpecLive == InitRuns /\ [][Next]_vars /\ WF_vars(Running)

(***************************************************************************)
(* Notions the properties are stated with.                                 *)
(***************************************************************************)
UrlsOf(rows) == {row[1] : row \in Range(rows)}

Succeeded(call) == ~call.res.err /\ call.res.code = HttpOk

Recorded(call) == Succeeded(call) /\ call.appended = "ok"

EntriesOn(d) ==
    Cardinality({k \in DOMAIN sentRows :
                    /\ Len(sentRows[k]) >= 2
                    /\ HasPrefix(sentRows[k][2], FormatDate(d))})

PerMinuteInterval == GoDiv(MinuteMs, rateLimitMinuteInt) + MarginMs

(***************************************************************************)
(* C1: a URL that is in the indexed file or in the sent file when the run  *)
(* starts is never passed to the publish call during that run, before or   *)
(* after a 24h pause.                                                      *)
(***************************************************************************)
C1_KnownNeverPublished ==
    \A k \in DOMAIN calls :
        calls[k].url \notin UrlsOf(indexedRows) \cup UrlsOf(startRows)

\* a finished run that passed over an indexed and an already sent entry and
\* published another one after a 24h pause
C1_Witness ==
    /\ pc = "done"
    /\ \E k \in DOMAIN urls : urls[k] \in UrlsOf(indexedRows)
    /\ \E k \in DOMAIN urls : urls[k] \in UrlsOf(startRows)
    /\ \E k \in DOMAIN calls : calls[k].gap >= DayMs

(***************************************************************************)
(* C2: with dailyLimit >= 1 the sent log never holds more than dailyLimit  *)
(* entries dated on one calendar day.                                      *)
(***************************************************************************)
C2_DailyLimitRespected ==
    (pc \in Dispatch \cup {"done"} /\ rateLimitDayInt >= 1)
        => \A d \in 0..now : EntriesOn(d) <= rateLimitDayInt

(***************************************************************************)
(* C3: a URL published and recorded during a run is not published again    *)
(* in that run, also when the sitemap lists it more than once.             *)
(***************************************************************************)
C3_NoRepublishInRun ==
    \A j, k \in DOMAIN calls :
        (j < k /\ Recorded(calls[j])) => calls[k].url # calls[j].url

(***************************************************************************)
(* C4: a run started after an earlier run stopped knows exactly the        *)
(* indexed URLs plus every URL recorded in the sent file so far, and       *)
(* publishes none of the URLs an earlier run recorded.                     *)
(***************************************************************************)
C4_ProgressSurvivesRestart ==
    (run >= 2 /\ pc \in {"todaySent", "done"} \cup Dispatch)
        => /\ indexedUrls \cup sentUrls = UrlsOf(indexedRows) \cup UrlsOf(startRows)
           /\ \A k \in DOMAIN calls : calls[k].url \notin UrlsOf(startRows)

\* a second run that found, and passed over, the URL with a comma that the
\* first run recorded
C4_Witness ==
    /\ run = 2 /\ pc = "done"
    /\ indexedRows = <<>>
    /\ <<"a", COMMA, "b">> \in UrlsOf(startRows)
    /\ \E k \in DOMAIN urls : urls[k] = <<"a", COMMA, "b">>

(***************************************************************************)
(* C5: for perMinuteLimit >= 1, two consecutive publish calls that both    *)
(* returned success are separated by a sleep of at least perMinuteInterval,*)
(* whether or not the first one was recorded.                              *)
(***************************************************************************)
C5_SuccessesPaced ==
    rateLimitMinuteInt >= 1 =>
        \A k \in DOMAIN calls :
            (k >= 2 /\ Succeeded(calls[k - 1]) /\ Succeeded(calls[k]))
                => calls[k].gap >= PerMinuteInterval

(***************************************************************************)
(* C6: for perMinuteLimit >= 1, any two consecutive publish calls, whatever*)
(* their outcome, are separated by a sleep of at least perMinuteInterval.  *)
(***************************************************************************)
C6_EveryRequestPaced ==
    rateLimitMinuteInt >= 1 =>
        \A k \in DOMAIN calls : k >= 2 => calls[k].gap >= PerMinuteInterval

(***************************************************************************)
(* C7: with a per-minute limit of 0 or less the run makes no publish call  *)
(* and appends nothing to the sent log.                                    *)
(***************************************************************************)
C7_NonPositiveLimitAborts ==
    LET m == Atoi(rateLimitMinute)
    IN  (~m.err /\ m.val <= 0) => (calls = <<>> /\ sentRows = startRows)

(***************************************************************************)
(* C8: when the sent file holds a row without a timestamp field, start-up  *)
(* aborts before the dispatch loop: no publish call, sent file unchanged.  *)
(***************************************************************************)
C8_MalformedSentAborts ==
    (\E k \in DOMAIN startRows : Len(startRows[k]) < 2)
        => /\ pc \in Startup \cup {"fatal", "panic", "killed"}
           /\ calls = <<>>
           /\ sentFile = startSent

\* every row lacks the timestamp: both reads of the file succeed and the
\* count of today's rows stops the process
C8_Witness ==
    /\ \A k \in DOMAIN startRows : Len(startRows[k]) < 2
    /\ startRows # <<>>
    /\ pc = "panic" /\ exit = "indexOutOfRange"

(***************************************************************************)
(* C9: an absent sent file is created and read as empty; an absent or      *)
(* unreadable indexed file stops start-up, and no step of the program      *)
(* creates or writes the indexed file.                                     *)
(***************************************************************************)
C9_IndexedStoreReadOnly ==
    [][/\ indexedFile' = indexedFile
       /\ (pc = "readIndexed" /\ indexedFile.st # "ok") => pc' \in {"fatal", "killed"}
       /\ (pc = "readSent" /\ sentFile.st = "absent")
              => (pc' \in {"todaySent", "killed"} /\ (pc' = "todaySent" => sentFile'.st = "ok"))
      ]_vars

(***************************************************************************)
(* C10: the number on the final line is the number of URLs published with  *)
(* status 200 and recorded during the run.                                 *)
(***************************************************************************)
C10_ReportCountsSent ==
    pc = "done" => reported = Cardinality({k \in DOMAIN calls : Recorded(calls[k])})

(***************************************************************************)
(* More notions: what was known when the run started, the rows dated on    *)
(* the day the run started, the budget left for that day, calls that       *)
(* follow a 24h pause (a pacing sleep is far shorter than a day), and a    *)
(* run without a failure so far.                                           *)
(***************************************************************************)
KnownAtStart == UrlsOf(indexedRows) \cup UrlsOf(startRows)

TodayAtStart ==
    Cardinality({k \in DOMAIN startRows :
                    /\ Len(startRows[k]) >= 2
                    /\ HasPrefix(startRows[k][2], FormatDate(startDay))})

Remaining == rateLimitDayInt - TodayAtStart

Paused(call) == call.gap >= DayMs

NoFailureSoFar ==
    \A k \in DOMAIN calls :
        Succeeded(calls[k]) /\ calls[k].appended \in {"ok", "none"}

(***************************************************************************)
(* C11: in a run without publish or append failures, with                  *)
(* r = dailyLimit - (sent rows dated today at start-up) >= 0, the first    *)
(* 24h pause comes exactly at the (r+1)-th sitemap entry that was not      *)
(* known at start-up: the first r such entries are published with no       *)
(* pause, and entries that were known are not counted.                     *)
(***************************************************************************)
C11_FirstPauseAtBudget ==
    (pc \in Dispatch \cup {"done"} /\ NoFailureSoFar /\ Remaining >= 0)
        => /\ \A k \in DOMAIN calls :
                /\ k <= Remaining => ~Paused(calls[k])
                /\ k = Remaining + 1 => Paused(calls[k])
                /\ Cardinality({i \in 1..calls[k].pos : urls[i] \notin KnownAtStart}) = k
           /\ (pc = "pause" /\ now = startDay) => Len(calls) = Remaining

\* an entry known at start-up is passed over, one entry uses up the budget
\* and the next one is published after the pause
C11_Witness ==
    /\ pc = "done" /\ NoFailureSoFar /\ Remaining >= 1
    /\ Len(calls) = Remaining + 1
    /\ Paused(calls[Len(calls)])
    /\ \E i \in 1..calls[1].pos : urls[i] \in KnownAtStart

(***************************************************************************)
(* C12: after any 24h pause of a run with dailyLimit >= 1, at most         *)
(* dailyLimit publish calls are made between the end of that pause and     *)
(* the next pause (or the end of the run).                                 *)
(***************************************************************************)
CallsUntilNextPause(k) ==
    {j \in k..Len(calls) : \A m \in (k + 1)..j : ~Paused(calls[m])}

C12_FreshDayAfterPause ==
    (pc \in Dispatch \cup {"done"} /\ rateLimitDayInt >= 1)
        => \A k \in DOMAIN calls :
               Paused(calls[k])
                   => Cardinality(CallsUntilNextPause(k)) <= rateLimitDayInt

(***************************************************************************)
(* C13: a URL that triggers the 24h pause is not skipped or lost: the      *)
(* pause begins and ends at the same sitemap entry, the next publish call  *)
(* of the run is for that entry and follows the pause, and only after      *)
(* that call does the dispatcher move on to the following entry.           *)
(***************************************************************************)
LastCall(cs) == cs[Len(cs)]

C13_PauseKeepsEntry ==
    [][/\ (pc = "loop" /\ pc' = "pause") => idx' = idx
       /\ (pc = "pause" /\ pc' # "killed")
            => /\ pc' = "publish"
               /\ idx' = idx /\ urls' = urls /\ calls' = calls
               /\ waited' >= DayMs
       /\ (pc = "publish" /\ pc' # "killed")
            => /\ Len(calls') = Len(calls) + 1
               /\ LastCall(calls').pos = idx
               /\ LastCall(calls').url = urls[idx]
               /\ LastCall(calls').gap = waited
               /\ idx' \in {idx, idx + 1}
               /\ urls' = urls]_vars

\* the entry that triggered the pause was published after it, and the
\* dispatcher stands at the following entry
C13_Witness ==
    /\ pc = "loop"
    /\ calls # <<>>
    /\ Paused(LastCall(calls))
    /\ idx = LastCall(calls).pos + 1
    /\ idx <= Len(urls)

(***************************************************************************)
(* C14: when a publish call fails (an error, or a status other than 200)   *)
(* nothing is appended to the sent file, no time passes in a sleep or a    *)
(* pause, the dispatcher stands at the next sitemap entry, and no entry    *)
(* is published that a call was already made for at an earlier position;   *)
(* the sent file grows only in the append step that follows a publish      *)
(* call of the same entry that returned no error and status 200.           *)
(***************************************************************************)
C14_FailedPublishMovesOn ==
    [][/\ (pc = "publish" /\ pc' # "killed")
            => /\ \A k \in DOMAIN calls : calls[k].pos < idx
               /\ ~Succeeded(LastCall(calls'))
                    => /\ sentFile' = sentFile /\ sentRows' = sentRows
                       /\ now' = now /\ waited' = 0
                       /\ pc' = "loop" /\ idx' = idx + 1
       /\ (sentFile'.data # sentFile.data \/ sentRows' # sentRows)
            => /\ pc = "append"
               /\ calls # <<>>
               /\ Succeeded(LastCall(calls))
               /\ LastCall(calls).pos = idx
               /\ LastCall(calls).appended = "none"
               /\ sentRows' = Append(sentRows, <<urls[idx], FormatRFC3339(now)>>)]_vars

\* a call failed, nothing was recorded for it, and a later entry was
\* published and recorded
C14_Witness ==
    /\ pc \in Dispatch \cup {"done"}
    /\ \E j, k \in DOMAIN calls :
         /\ j < k
         /\ ~Succeeded(calls[j])
         /\ calls[j].url \notin UrlsOf(sentRows)
         /\ Recorded(calls[k])

(***************************************************************************)
(* C15: recording a sent URL either fully succeeds or is reported:         *)
(* whenever the append returned no error (the dispatcher goes on to the    *)
(* pacing sleep), the record of that URL, with the current timestamp, is   *)
(* the last record of the sent file on disk; and whenever the append was   *)
(* reported as failed, the file content is what it was before.             *)
(***************************************************************************)
OnDisk == ReadAll(sentFile.data)

C15_AppendAllOrReported ==
    /\ pc = "sleep"
         => /\ ~OnDisk.err
            /\ OnDisk.records # <<>>
            /\ LastCall(OnDisk.records) = <<urls[idx], FormatRFC3339(now)>>
    /\ (pc \in Dispatch \cup {"done"} /\ sentFile.st = "ok")
         => sentFile.data = WriteAll(sentRows)

(***************************************************************************)
(* C16: the sent file only grows by appending: over every step of a run,   *)
(* and from one run to the next, the earlier content is a prefix of the    *)
(* later content; the content of the indexed file and the indexed set in   *)
(* memory stay what they were for the whole run.                           *)
(***************************************************************************)
IsPrefix(s, t) == Len(s) <= Len(t) /\ SubSeq(t, 1, Len(s)) = s

C16_SentFileAppendOnly ==
    [][/\ IsPrefix(sentFile.data, sentFile'.data)
       /\ indexedFile'.data = indexedFile.data
       /\ indexedRows' = indexedRows
       /\ (pc \in Dispatch /\ pc' \in Dispatch \cup {"done"})
            => indexedUrls' = indexedUrls]_vars

\* a second run has added a record after the records of the first run, which
\* itself added one to a file that was not empty
C16_Witness ==
    /\ run = 2
    /\ pc = "done"
    /\ Len(startRows) >= 2
    /\ Len(sentRows) > Len(startRows)
    /\ sentFile.data = WriteAll(sentRows)

(***************************************************************************)
(* C17: processing a sitemap entry that is already known (in the indexed   *)
(* file or in the sent file the run started with) changes nothing: no      *)
(* publish call, no append to the sent file, no change of the per-run      *)
(* counter or of the limit left for today, no pacing sleep and no pause;   *)
(* the dispatcher only moves to the next entry.                            *)
(***************************************************************************)
C17_SkipChangesNothing ==
    [][(/\ pc = "loop"
        /\ idx <= Len(urls)
        /\ urls[idx] \in KnownAtStart
        /\ pc' # "killed")
          => /\ pc' = "loop"
             /\ idx' = idx + 1
             /\ UNCHANGED <<calls, sentFile, sentRows, indexedFile, count,
                            todayLimit, waited, now, urls, indexedUrls,
                            sentUrls, reported>>]_vars

\* one entry was published and counted, the next one was known and passed
\* over with the counter and the clock as they were
C17_Witness ==
    /\ pc = "loop"
    /\ idx = 3
    /\ urls[2] \in KnownAtStart
    /\ Len(calls) = 1
    /\ Recorded(calls[1])
    /\ count = 1
    /\ waited = PerMinuteInterval

(***************************************************************************)
(* C18: a run that is not killed terminates: once in the dispatch loop it  *)
(* reaches the final report (calls return and sleeps end), for every       *)
(* daily limit, 0 included, and every pattern of failures.  On the way     *)
(* the sitemap entries are handled once each, in sitemap order: the        *)
(* position moves one entry forward every time the loop is entered, and    *)
(* only then; a 24h pause begins only at the head of the loop, so at most  *)
(* one is taken per entry; the report is made at the end of the sitemap.   *)
(***************************************************************************)
C18_RunTerminates ==
    /\ (pc = "loop") ~> (pc \in {"done", "killed"})
    /\ [][/\ (pc \in Dispatch /\ pc' = "loop") => idx' = idx + 1
          /\ (pc \in Dispatch /\ pc' \in Dispatch \ {"loop"}) => idx' = idx
          /\ (pc \in Dispatch /\ pc' # "killed") => urls' = urls
          /\ pc' = "pause" => (pc = "loop" /\ idx <= Len(urls))
          /\ pc' = "done"
               => /\ pc = "loop"
                  /\ idx = Len(urls) + 1
                  /\ idx' = idx
                  /\ \A k \in DOMAIN calls : calls[k].pos <= Len(urls)]_vars

\* daily limit 0, two entries, a 24h pause before each call, one call failed,
\* and the final report is reached
C18_Witness ==
    /\ pc = "done"
    /\ rateLimitDayInt = 0
    /\ Len(urls) = 2
    /\ Len(calls) = 2
    /\ Paused(calls[1]) /\ Paused(calls[2])
    /\ faults >= 1

(***************************************************************************)
(* C19: every publish attempt consumes daily budget, whether or not it     *)
(* succeeds: the publish calls made before the first 24h pause of a run,   *)
(* failed ones included, number at most max(0, dailyLimit - k), with k     *)
(* the number of sent-file records whose timestamp starts with the date    *)
(* of the day the run started on; for k >= dailyLimit the first publish    *)
(* call is made after a pause.                                             *)
(***************************************************************************)
CallsBeforeFirstPause ==
    {k \in DOMAIN calls : \A j \in 1..k : ~Paused(calls[j])}

C19_AttemptsConsumeBudget ==
    pc \in Dispatch \cup {"done"}
        => /\ Cardinality(CallsBeforeFirstPause) <= Max(0, Remaining)
           /\ (pc = "publish" /\ waited < DayMs /\ CallsBeforeFirstPause = DOMAIN calls)
                => Len(calls) < Max(0, Remaining)
           /\ TodayAtStart >= rateLimitDayInt
                => /\ calls # <<>> => Paused(calls[1])
                   /\ (pc = "publish" /\ calls = <<>>) => waited >= DayMs

\* one record of today at start-up and daily limit 2: the one call left
\* failed, and the next entry was published after a pause
C19_Witness ==
    /\ pc \in Dispatch \cup {"done"}
    /\ TodayAtStart = 1
    /\ rateLimitDayInt = 2
    /\ Len(calls) >= 2
    /\ ~Succeeded(calls[1]) /\ ~Paused(calls[1])
    /\ Paused(calls[2])

====
